---- MODULE Spec2Model ----
(***************************************************************************)
(* A model of the length-prefixed JSON RPC server: the function registry   *)
(* and the dispatcher (RPCServer::process_json_request), the per-          *)
(* connection worker loop (RPCServer::handle_client inside the detached    *)
(* thread of RPCServer::start), and the server life cycle (start / stop /  *)
(* register_function).                                                     *)
(***************************************************************************)
EXTENDS Integers, Sequences, FiniteSets, TLC

(***************************************************************************)
(* Bounds of the model.                                                    *)
(***************************************************************************)
NumConns == 2   \* connections the accept loop may hand to workers
MaxReq == 2     \* request frames the clients send, all connections together
NumObjs == 2    \* Connection objects, and descriptors for them
MaxData == 3    \* bytes in a buffer to send or to receive
MaxScript == 2  \* scripted answers of the transport within one operation

Conns == 1..NumConns

(***************************************************************************)
(* int32_t, the type of the arithmetic handlers' operands.                 *)
(***************************************************************************)
IntMax == 2147483647
IntMin == -IntMax - 1

(***************************************************************************)
(* Json::Value.  One record shape per value type so that values of         *)
(* different types are comparable.                                         *)
(***************************************************************************)
JNull == [type |-> "null"]
JInt(i) == [type |-> "int", i |-> i]
JStr(s) == [type |-> "string", s |-> s]
JBool(b) == [type |-> "bool", b |-> b]
JArr(elems) == [type |-> "array", elems |-> elems]
JObj(members) == [type |-> "object", members |-> members]

\* Json::Value::isArray, isInt, size, empty as the handlers use them.
isArray(v) == v.type = "array"
isInt(v) == v.type = "int"
size(v) == IF v.type = "array" THEN Len(v.elems) ELSE 0

(***************************************************************************)
(* Decimal text of an integer (Json::valueToString for Int).               *)
(***************************************************************************)
Digit(d) == <<"0", "1", "2", "3", "4", "5", "6", "7", "8", "9">>[d + 1]

RECURSIVE NatToString(_)
NatToString(n) ==
    IF n < 10 THEN Digit(n) ELSE NatToString(n \div 10) \o Digit(n % 10)

valueToString(i) ==
    IF i >= 0 THEN NatToString(i)
    ELSE IF i = IntMin THEN "-2147483648"
    ELSE "-" \o NatToString(-i)

(***************************************************************************)
(* Json::Value::isMember(key): defined on objectValue and nullValue only;  *)
(* on any other type it raises Json::LogicError.                           *)
(***************************************************************************)
isMemberThrows(v) == v.type \notin {"null", "object"}
isMember(v, key) == v.type = "object" /\ key \in DOMAIN v.members

(***************************************************************************)
(* Json::Value::asString(): null gives "", a string itself, a boolean and  *)
(* a number their text; an array or an object raises Json::LogicError.     *)
(***************************************************************************)
asStringThrows(v) == v.type \in {"array", "object"}
asString(v) ==
    CASE v.type = "null" -> ""
      [] v.type = "string" -> v.s
      [] v.type = "bool" -> IF v.b THEN "true" ELSE "false"
      [] v.type = "int" -> valueToString(v.i)

(***************************************************************************)
(* Request payloads: the JSON texts a client may put in a frame.           *)
(* Requests are the ones the workers of Spec receive; Payloads adds        *)
(* further shapes for the dispatch-only specification.                     *)
(***************************************************************************)
Requests ==
    { "{\"function\":",
      "[1,2]",
      "{\"function\":\"add\",\"args\":[2,3]}",
      "{\"function\":\"divide\",\"args\":[1,0]}",
      "{\"function\":\"divide\",\"args\":[-2147483648,-1]}" }

Payloads ==
    Requests \cup
    { "",
      "{\"function\":\"missing\",\"args\":[]}",
      "{\"args\":[2,3]}",
      "{\"function\":[\"add\"],\"args\":[]}",
      "42",
      "\"add\"",
      "true",
      "null",
      "{}",
      "{\"function\":\"add\"}",
      "{\"function\":\"missing\"}",
      "{\"function\":5,\"args\":[]}",
      "{\"function\":null,\"args\":[]}",
      "{\"function\":\"add\",\"args\":[2]}",
      "{\"function\":\"add\",\"args\":{\"a\":1}}",
      "{\"function\":\"add\",\"args\":[2147483647,1]}",
      "{\"function\":\"divide\",\"args\":[-7,2]}" }

(***************************************************************************)
(* Json::parseFromStream on these texts: either the root value, or failure *)
(* with the reader's diagnostic (formatted error messages).                *)
(***************************************************************************)
Parsed(v) == [ok |-> TRUE, root |-> v]
ParseError(e) == [ok |-> FALSE, errors |-> e]

Call(f, a) == JObj([function |-> f, args |-> a])

parseFromStream(str) ==
    CASE str = "{\"function\":" ->
            ParseError("* Line 1, Column 13 Syntax error: value, object or array expected.")
      [] str = "" ->
            ParseError("* Line 1, Column 1 Syntax error: value, object or array expected.")
      [] str = "[1,2]" -> Parsed(JArr(<<JInt(1), JInt(2)>>))
      [] str = "42" -> Parsed(JInt(42))
      [] str = "\"add\"" -> Parsed(JStr("add"))
      [] str = "true" -> Parsed(JBool(TRUE))
      [] str = "null" -> Parsed(JNull)
      [] str = "{}" -> Parsed(JObj(<<>>))
      [] str = "{\"args\":[2,3]}" -> Parsed(JObj([args |-> JArr(<<JInt(2), JInt(3)>>)]))
      [] str = "{\"function\":\"add\"}" -> Parsed(JObj([function |-> JStr("add")]))
      [] str = "{\"function\":\"missing\"}" -> Parsed(JObj([function |-> JStr("missing")]))
      [] str = "{\"function\":[\"add\"],\"args\":[]}" ->
            Parsed(Call(JArr(<<JStr("add")>>), JArr(<<>>)))
      [] str = "{\"function\":5,\"args\":[]}" -> Parsed(Call(JInt(5), JArr(<<>>)))
      [] str = "{\"function\":null,\"args\":[]}" -> Parsed(Call(JNull, JArr(<<>>)))
      [] str = "{\"function\":\"missing\",\"args\":[]}" ->
            Parsed(Call(JStr("missing"), JArr(<<>>)))
      [] str = "{\"function\":\"add\",\"args\":[2,3]}" ->
            Parsed(Call(JStr("add"), JArr(<<JInt(2), JInt(3)>>)))
      [] str = "{\"function\":\"add\",\"args\":[2]}" ->
            Parsed(Call(JStr("add"), JArr(<<JInt(2)>>)))
      [] str = "{\"function\":\"add\",\"args\":{\"a\":1}}" ->
            Parsed(Call(JStr("add"), JObj([a |-> JInt(1)])))
      [] str = "{\"function\":\"add\",\"args\":[2147483647,1]}" ->
            Parsed(Call(JStr("add"), JArr(<<JInt(IntMax), JInt(1)>>)))
      [] str = "{\"function\":\"divide\",\"args\":[1,0]}" ->
            Parsed(Call(JStr("divide"), JArr(<<JInt(1), JInt(0)>>)))
      [] str = "{\"function\":\"divide\",\"args\":[-7,2]}" ->
            Parsed(Call(JStr("divide"), JArr(<<JInt(-7), JInt(2)>>)))
      [] str = "{\"function\":\"divide\",\"args\":[-2147483648,-1]}" ->
            Parsed(Call(JStr("divide"), JArr(<<JInt(IntMin), JInt(-1)>>)))

(***************************************************************************)
(* Outcomes of a call: a returned value, a raised std::exception with its  *)
(* what() text, or the termination of the process (a trap raised by        *)
(* undefined behaviour).  A call whose behaviour is undefined has more     *)
(* than one outcome.                                                       *)
(***************************************************************************)
Value(v) == [kind |-> "value", value |-> v]
Throw(what) == [kind |-> "throw", what |-> what]
Crash == [kind |-> "crash"]

(***************************************************************************)
(* add_impl: a + b on int32_t.  Signed overflow is undefined: the build    *)
(* wraps, or traps.                                                        *)
(***************************************************************************)
add_impl(a, b) ==
    IF b > 0 /\ a > IntMax - b
    THEN {Value(JInt((a + IntMin) + (b + IntMin))), Crash}
    ELSE IF b < 0 /\ a < IntMin - b
    THEN {Value(JInt((a - IntMin) + (b - IntMin))), Crash}
    ELSE {Value(JInt(a + b))}

(***************************************************************************)
(* divide_impl: throws on a zero denominator, else numerator / denominator *)
(* truncated toward zero.  INT_MIN / -1 overflows: undefined, the division *)
(* instruction traps (SIGFPE) or yields INT_MIN.                           *)
(***************************************************************************)
TruncDiv(a, b) ==
    LET q == a \div b
    IN  IF q * b # a /\ (a < 0) # (b < 0) THEN q + 1 ELSE q

divide_impl(numerator, denominator) ==
    IF denominator = 0 THEN {Throw("Division by zero")}
    ELSE IF numerator = IntMin /\ denominator = -1 THEN {Value(JInt(IntMin)), Crash}
    ELSE {Value(JInt(TruncDiv(numerator, denominator)))}

(***************************************************************************)
(* The registered wrappers of main.cpp: they validate args, then call the  *)
(* implementation.                                                         *)
(***************************************************************************)
TwoInts(args) ==
    /\ isArray(args)
    /\ size(args) = 2
    /\ isInt(args.elems[1])
    /\ isInt(args.elems[2])

add(args) ==
    IF ~TwoInts(args) THEN {Throw("add requires two integer arguments")}
    ELSE add_impl(args.elems[1].i, args.elems[2].i)

divide(args) ==
    IF ~TwoInts(args) THEN {Throw("divide requires two integers")}
    ELSE IF args.elems[2].i = 0 THEN {Throw("Division by zero")}
    ELSE divide_impl(args.elems[1].i, args.elems[2].i)

\* The handlers a caller may register, named as main.cpp names them.
Handlers == {"add", "divide"}

\* Invoking a std::function: RPCFunction(args).
Invoke(func, args) ==
    CASE func = "add" -> add(args)
      [] func = "divide" -> divide(args)

(***************************************************************************)
(* function_registry: a std::map from name to handler, here a function     *)
(* whose domain is the set of registered names.                            *)
(***************************************************************************)
Names == {"add", "divide"}
Registries == UNION {[D -> Handlers] : D \in SUBSET Names}
EmptyRegistry == <<>>

\* A default-constructed std::function: calling it raises bad_function_call.
EmptyFunction == "empty"

(***************************************************************************)
(* function_registry.count(func_name) and function_registry[func_name] as  *)
(* process_json_request performs them.  inserting is the set of insertions *)
(* (name, func) another thread is performing on the map at this moment: at *)
(* most one.  With none the lookup is the map's.  With one the read races  *)
(* with the write, which is undefined: a present key may be missed while   *)
(* the tree is rebalanced, and the key being inserted may be missed, found *)
(* with its handler, found with the still empty std::function, or found    *)
(* half-assigned (torn), and calling that ends the process.                *)
(***************************************************************************)
Found(func) == [found |-> TRUE, func |-> func]
NotFound == [found |-> FALSE]
Torn == "torn"

Lookup(registry, inserting, func_name) ==
    IF inserting = {}
    THEN {IF func_name \in DOMAIN registry THEN Found(registry[func_name]) ELSE NotFound}
    ELSE IF func_name \in DOMAIN registry
    THEN {Found(registry[func_name]), NotFound}
    ELSE {NotFound} \cup
         UNION {{Found(ins.func), Found(EmptyFunction), Found(Torn)} :
                  ins \in {i \in inserting : i.name = func_name}}

\* function_registry[func_name](args)
CallRegistered(func, args) ==
    CASE func = EmptyFunction -> {Throw("bad_function_call")}
      [] func = Torn -> {Crash}
      [] OTHER -> Invoke(func, args)

\* The handler invoked, when none was.
NoFunc == "none"

(***************************************************************************)
(* function_registry[func_name] as an access to the map: std::map's        *)
(* operator[] inserts a default-constructed value for a key it does not    *)
(* find and leaves the map alone for one it finds.                         *)
(***************************************************************************)
Subscript(registry, func_name) ==
    IF func_name \in DOMAIN registry THEN registry
    ELSE [n \in DOMAIN registry \cup {func_name} |->
            IF n = func_name THEN EmptyFunction ELSE registry[n]]

(***************************************************************************)
(* The registry process_json_request leaves.  called is the handler it     *)
(* invoked: with NoFunc line 219 was not reached.  Else line 219 has       *)
(* subscripted the map.  While another thread inserts, count may have seen *)
(* the node of that insertion and the subscript, a second walk through a   *)
(* tree under rebalancing, may miss it and insert a node of its own, whose *)
(* empty std::function is then the one called.                             *)
(***************************************************************************)
RegistryAfter(registry, inserting, func_name, called) ==
    IF called = NoFunc THEN {registry}
    ELSE IF inserting = {} THEN {Subscript(registry, func_name)}
    ELSE {registry} \cup
         (IF called = EmptyFunction THEN {Subscript(registry, func_name)} ELSE {})

\* The function name process_json_request reads from a request that has one.
RequestedName(request_json_str) ==
    asString(parseFromStream(request_json_str).root.members.function)

(***************************************************************************)
(* The response envelopes process_json_request builds.                     *)
(***************************************************************************)
ErrorResponse(message) ==
    JObj([status |-> JStr("error"), message |-> JStr(message)])
SuccessResponse(result) ==
    JObj([status |-> JStr("success"), result |-> result])

(***************************************************************************)
(* serialize_response: the JSON text of the envelope behind its length as  *)
(* a 4-byte big-endian unsigned integer.                                   *)
(***************************************************************************)
RECURSIVE WriteValue(_)
RECURSIVE WriteElems(_)
WriteElems(elems) ==
    IF elems = <<>> THEN ""
    ELSE IF Len(elems) = 1 THEN WriteValue(elems[1])
    ELSE WriteValue(elems[1]) \o "," \o WriteElems(Tail(elems))

WriteValue(v) ==
    CASE v.type = "null" -> "null"
      [] v.type = "int" -> valueToString(v.i)
      [] v.type = "bool" -> (IF v.b THEN "true" ELSE "false")
      [] v.type = "string" -> "\"" \o v.s \o "\""
      [] v.type = "array" -> "[" \o WriteElems(v.elems) \o "]"

WriteEnvelope(response) ==
    IF response.members.status.s = "success"
    THEN "{\"status\":\"success\",\"result\":" \o WriteValue(response.members.result) \o "}"
    ELSE "{\"status\":\"error\",\"message\":" \o WriteValue(response.members.message) \o "}"

htonl(n) ==
    <<(n \div 16777216) % 256, (n \div 65536) % 256, (n \div 256) % 256, n % 256>>

serialize_response(response) ==
    LET text == WriteEnvelope(response)
    IN  [prefix |-> htonl(Len(text)), payload |-> text]

(***************************************************************************)
(* RPCServer::process_json_request.  Its outcomes: it returns a framed     *)
(* response, an exception escapes it, or the process ends.  called is the  *)
(* handler that was invoked, NoFunc when none was.                         *)
(***************************************************************************)
Return(response, called) ==
    [kind |-> "return", response |-> response,
     frame |-> serialize_response(response), called |-> called]
Escape(what) == [kind |-> "throw", what |-> what]
Abort(called) == [kind |-> "crash", called |-> called]

\* FunctionNotFoundError, an exception whose what() is the message it is built
\* with.
FunctionNotFoundError(message) == Throw(message)

Execute(func, args) ==
    {CASE o.kind = "value" -> Return(SuccessResponse(o.value), func)
       [] o.kind = "throw" -> Return(ErrorResponse("Execution error: " \o o.what), func)
       [] o.kind = "crash" -> Abort(func)
     : o \in CallRegistered(func, args)}

\* A lookup that reports a missing function as a handler failure would.
FindAndExecute_AsExecutionError(func_name, args, registry, inserting) ==
    UNION {IF l.found
           THEN Execute(l.func, args)
           ELSE {Return(ErrorResponse("Execution error: Function not found"), NoFunc)}
           : l \in Lookup(registry, inserting, func_name)}

\* The try block: find func_name in the registry and call what is found; a
\* miss throws FunctionNotFoundError, whose handler answers with its what().
FindAndExecute(func_name, args, registry, inserting) ==
    UNION {IF l.found
           THEN Execute(l.func, args)
           ELSE {Return(ErrorResponse(FunctionNotFoundError("Function not found").what),
                        NoFunc)}
           : l \in Lookup(registry, inserting, func_name)}

\* A validation that looks for "function" only; an absent "args" reads as null.
ValidateAndDispatch_FunctionOnly(request, registry, inserting) ==
    IF isMemberThrows(request)
    THEN {Escape("in Json::Value::find(begin, end): requires objectValue or nullValue")}
    ELSE IF ~isMember(request, "function")
    THEN {Return(ErrorResponse("Missing 'function' or 'args' field"), NoFunc)}
    ELSE IF asStringThrows(request.members.function)
    THEN {Escape("Type is not convertible to string")}
    ELSE FindAndExecute(asString(request.members.function),
                        IF isMember(request, "args") THEN request.members.args ELSE JNull,
                        registry, inserting)

\* The parsed request: the check of its two fields, the function name read
\* as a string, and the dispatch.  The first two are outside the try block.
ValidateAndDispatch(request, registry, inserting) ==
    IF isMemberThrows(request)
    THEN {Escape("in Json::Value::find(begin, end): requires objectValue or nullValue")}
    ELSE IF ~isMember(request, "function") \/ ~isMember(request, "args")
    THEN {Return(ErrorResponse("Missing 'function' or 'args' field"), NoFunc)}
    ELSE IF asStringThrows(request.members.function)
    THEN {Escape("Type is not convertible to string")}
    ELSE FindAndExecute(asString(request.members.function), request.members.args,
                        registry, inserting)

\* A dispatch that lets the reader's failure escape as an exception.
process_json_request_ParseThrows(request_json_str, registry, inserting) ==
    LET parsed == parseFromStream(request_json_str)
    IN  IF ~parsed.ok
        THEN {Escape("Invalid JSON: " \o parsed.errors)}
        ELSE ValidateAndDispatch(parsed.root, registry, inserting)

process_json_request(request_json_str, registry, inserting) ==
    LET parsed == parseFromStream(request_json_str)
    IN  IF ~parsed.ok
        THEN {Return(ErrorResponse("Invalid JSON: " \o parsed.errors), NoFunc)}
        ELSE ValidateAndDispatch(parsed.root, registry, inserting)

\* A registration without the check for a name already present.
register_function_NoDuplicateCheck(name, isRunning, registry) ==
    IF isRunning THEN "threw" ELSE "insert"

(***************************************************************************)
(* RPCServer::register_function, up to the insertion: called while the     *)
(* server runs it throws, for a name already in the map it warns and       *)
(* returns, else it goes on to insert.                                     *)
(***************************************************************************)
register_function(name, isRunning, registry) ==
    IF isRunning THEN "threw"
    ELSE IF name \in DOMAIN registry THEN "warned"
    ELSE "insert"

\* function_registry[name] = func
Insert(registry, name, func) ==
    [n \in DOMAIN registry \cup {name} |-> IF n = name THEN func ELSE registry[n]]

(***************************************************************************)
(* rpc_connection::Connection.  An object is its two fields, fd and open.  *)
(* The transport is what the send, recv and close system calls answer: a   *)
(* script gives the answers of successive calls, a return value and, for   *)
(* -1, errno.  Past the end of the script every call transfers one byte.   *)
(***************************************************************************)
NoFd == -1
Connection(socket_fd) == [fd |-> socket_fd, open |-> socket_fd >= 0]

Ok(n) == [ret |-> n, errno |-> "none"]
Fail(errno) == [ret |-> -1, errno |-> errno]

strerror(errno) ==
    CASE errno = "EPIPE" -> "Broken pipe"
      [] errno = "ECONNRESET" -> "Connection reset by peer"
      [] errno = "EBADF" -> "Bad file descriptor"
      [] errno = "EIO" -> "Input/output error"
      [] errno = "EINTR" -> "Interrupted system call"

Min(a, b) == IF a < b THEN a ELSE b

\* What an operation of Connection leaves: the object, the message of the
\* ConnectionError it threw (NoError when it returned) and the system calls
\* it made.
NoError == "none"

(***************************************************************************)
(* Connection::send_data.  wire is what the transport took, in order.      *)
(***************************************************************************)
RECURSIVE SendLoop(_, _, _, _, _, _)
SendLoop(self, data, total_sent, script, wire, calls) ==
    IF total_sent >= Len(data)
    THEN [self |-> self, error |-> NoError, wire |-> wire, calls |-> calls]
    ELSE LET left == Len(data) - total_sent
             r == IF script = <<>> THEN Ok(1) ELSE Head(script)
             rest == IF script = <<>> THEN <<>> ELSE Tail(script)
             sent == Min(r.ret, left)
         IN  IF sent < 0
             THEN IF r.errno = "EINTR"
                  THEN SendLoop(self, data, total_sent, rest, wire, calls + 1)
                  ELSE [self |-> [self EXCEPT !.open = FALSE],
                        error |-> "Send error: " \o strerror(r.errno),
                        wire |-> wire, calls |-> calls + 1]
             ELSE SendLoop(self, data, total_sent + sent, rest,
                           wire \o SubSeq(data, total_sent + 1, total_sent + sent),
                           calls + 1)

\* A send_data that writes to the transport without looking at open.
send_data_Unguarded(self, data, script) ==
    SendLoop(self, data, 0, script, <<>>, 0)

\* A send_data that calls send once and takes the buffer for sent.
send_data_SingleSend(self, data, script) ==
    IF ~self.open
    THEN [self |-> self, error |-> "Connection is closed", wire |-> <<>>, calls |-> 0]
    ELSE IF data = <<>>
    THEN [self |-> self, error |-> NoError, wire |-> <<>>, calls |-> 0]
    ELSE LET r == IF script = <<>> THEN Ok(1) ELSE Head(script)
             sent == Min(r.ret, Len(data))
         IN  IF sent < 0
             THEN [self |-> [self EXCEPT !.open = FALSE],
                   error |-> "Send error: " \o strerror(r.errno),
                   wire |-> <<>>, calls |-> 1]
             ELSE [self |-> self, error |-> NoError,
                   wire |-> SubSeq(data, 1, sent), calls |-> 1]

send_data(self, data, script) ==
    IF ~self.open
    THEN [self |-> self, error |-> "Connection is closed", wire |-> <<>>, calls |-> 0]
    ELSE SendLoop(self, data, 0, script, <<>>, 0)

(***************************************************************************)
(* Connection::receive_data.  stream holds the bytes the peer sends before *)
(* it closes its end: recv takes from its front, and answers 0 when none   *)
(* is left.  data is the buffer returned, rest the stream left unread.  A  *)
(* call that throws returns no buffer.                                     *)
(***************************************************************************)
RECURSIVE RecvLoop(_, _, _, _, _, _)
RecvLoop(self, num_bytes, buffer, stream, script, calls) ==
    IF Len(buffer) >= num_bytes
    THEN [self |-> self, error |-> NoError, data |-> buffer, rest |-> stream,
          calls |-> calls]
    ELSE LET r == IF script = <<>> THEN Ok(1) ELSE Head(script)
             next == IF script = <<>> THEN <<>> ELSE Tail(script)
             received == IF r.ret < 0 THEN -1
                         ELSE Min(Min(r.ret, num_bytes - Len(buffer)), Len(stream))
         IN  IF received = 0
             THEN [self |-> [self EXCEPT !.open = FALSE],
                   error |-> "Connection closed by peer",
                   data |-> <<>>, rest |-> stream, calls |-> calls + 1]
             ELSE IF received < 0
             THEN IF r.errno = "EINTR"
                  THEN RecvLoop(self, num_bytes, buffer, stream, next, calls + 1)
                  ELSE [self |-> [self EXCEPT !.open = FALSE],
                        error |-> "Receive error: " \o strerror(r.errno),
                        data |-> <<>>, rest |-> stream, calls |-> calls + 1]
             ELSE RecvLoop(self, num_bytes, buffer \o SubSeq(stream, 1, received),
                           SubSeq(stream, received + 1, Len(stream)), next, calls + 1)

\* A loop that reports the peer's close like any other read failure.
RECURSIVE RecvLoop_CloseAsError(_, _, _, _, _, _)
RecvLoop_CloseAsError(self, num_bytes, buffer, stream, script, calls) ==
    IF Len(buffer) >= num_bytes
    THEN [self |-> self, error |-> NoError, data |-> buffer, rest |-> stream,
          calls |-> calls]
    ELSE LET r == IF script = <<>> THEN Ok(1) ELSE Head(script)
             next == IF script = <<>> THEN <<>> ELSE Tail(script)
             received == IF r.ret < 0 THEN -1
                         ELSE Min(Min(r.ret, num_bytes - Len(buffer)), Len(stream))
         IN  IF received <= 0
             THEN IF received < 0 /\ r.errno = "EINTR"
                  THEN RecvLoop_CloseAsError(self, num_bytes, buffer, stream, next,
                                             calls + 1)
                  ELSE [self |-> [self EXCEPT !.open = FALSE],
                        error |-> "Receive error: " \o
                                  strerror(IF received < 0 THEN r.errno ELSE "EIO"),
                        data |-> <<>>, rest |-> stream, calls |-> calls + 1]
             ELSE RecvLoop_CloseAsError(self, num_bytes,
                                        buffer \o SubSeq(stream, 1, received),
                                        SubSeq(stream, received + 1, Len(stream)),
                                        next, calls + 1)

\* A receive_data whose loop reports the peer's close as a read failure.
receive_data_CloseAsError(self, num_bytes, stream, script) ==
    IF ~self.open
    THEN [self |-> self, error |-> "Connection is closed", data |-> <<>>,
          rest |-> stream, calls |-> 0]
    ELSE RecvLoop_CloseAsError(self, num_bytes, <<>>, stream, script, 0)

\* A receive_data that calls recv once and returns what that one call read.
receive_data_SingleRecv(self, num_bytes, stream, script) ==
    IF ~self.open
    THEN [self |-> self, error |-> "Connection is closed", data |-> <<>>,
          rest |-> stream, calls |-> 0]
    ELSE IF num_bytes = 0
    THEN [self |-> self, error |-> NoError, data |-> <<>>, rest |-> stream,
          calls |-> 0]
    ELSE LET r == IF script = <<>> THEN Ok(1) ELSE Head(script)
             res == RecvLoop(self, IF r.ret > 0 THEN Min(num_bytes, r.ret) ELSE num_bytes,
                             <<>>, stream, script, 0)
         IN  IF res.error # NoError
             THEN res
             ELSE [res EXCEPT !.data = [i \in 1..num_bytes |->
                                          IF i <= Len(res.data) THEN res.data[i] ELSE 0]]

receive_data(self, num_bytes, stream, script) ==
    IF ~self.open
    THEN [self |-> self, error |-> "Connection is closed", data |-> <<>>,
          rest |-> stream, calls |-> 0]
    ELSE RecvLoop(self, num_bytes, <<>>, stream, script, 0)

(***************************************************************************)
(* Connection::receive_length_prefix.  A uint32_t is written as its four   *)
(* base-256 digits, most significant first.  memcpy gives the uint32_t     *)
(* whose bytes in memory are the four received, which depends on the byte  *)
(* order of the host; ntohl turns network order into host order.           *)
(***************************************************************************)
Hosts == {"little", "big"}
Reversed(w) == <<w[4], w[3], w[2], w[1]>>
memcpy(data, host) == IF host = "little" THEN Reversed(data) ELSE data
ntohl(word, host) == IF host = "little" THEN Reversed(word) ELSE word
NoLength == <<>>

\* A receive_length_prefix that takes the bytes in memory for the length.
receive_length_prefix_NoSwap(self, stream, script, host) ==
    LET r == receive_data(self, 4, stream, script)
    IN  [self |-> r.self, error |-> r.error, rest |-> r.rest, calls |-> r.calls,
         length |-> IF r.error = NoError THEN memcpy(r.data, host) ELSE NoLength]

receive_length_prefix(self, stream, script, host) ==
    LET r == receive_data(self, 4, stream, script)
    IN  [self |-> r.self, error |-> r.error, rest |-> r.rest, calls |-> r.calls,
         length |-> IF r.error = NoError THEN ntohl(memcpy(r.data, host), host)
                    ELSE NoLength]

\* The number a uint32_t stands for, as far as it can be counted here: from
\* 2^16 on it is more bytes than any peer of the model sends.
Beyond == 256 * 256
ToSize(word) ==
    IF word[1] = 0 /\ word[2] = 0 THEN word[3] * 256 + word[4] ELSE Beyond

(***************************************************************************)
(* The head of the loop of RPCServer::handle_client: the length prefix,    *)
(* then that many bytes, which are the request.                            *)
(***************************************************************************)
After(script, calls) == SubSeq(script, calls + 1, Len(script))

receive_request(self, stream, script, host) ==
    LET p == receive_length_prefix(self, stream, script, host)
    IN  IF p.error # NoError
        THEN [self |-> p.self, error |-> p.error, length |-> NoLength,
              request |-> <<>>, rest |-> p.rest]
        ELSE LET d == receive_data(p.self, ToSize(p.length), p.rest,
                                   After(script, p.calls))
             IN  [self |-> d.self, error |-> d.error, length |-> p.length,
                  request |-> d.data, rest |-> d.rest]

(***************************************************************************)
(* Connection::close_connection.  r is what close(fd) answers; closed      *)
(* lists the descriptors handed to close, logged tells that the failure    *)
(* of close was written to std::cerr.                                      *)
(***************************************************************************)
Untouched(self) ==
    [self |-> self, error |-> NoError, closed |-> <<>>, logged |-> FALSE]

\* A close_connection that closes fd whether open or not.
close_connection_Unguarded(self, r) ==
    [self |-> [fd |-> NoFd, open |-> FALSE], error |-> NoError,
     closed |-> <<self.fd>>, logged |-> r.ret < 0]

close_connection(self, r) ==
    IF ~self.open THEN Untouched(self)
    ELSE [self |-> [fd |-> NoFd, open |-> FALSE], error |-> NoError,
          closed |-> <<self.fd>>, logged |-> r.ret < 0]

\* Connection::~Connection
Destructor(self, r) ==
    IF self.open THEN close_connection(self, r) ELSE Untouched(self)

\* Connection::Connection(Connection&& other)
MovedFrom == [fd |-> NoFd, open |-> FALSE]

\* A move constructor that copies fd and open and leaves the source as it is.
MoveConstructor_Copies(other) == [self |-> other, other |-> other]

MoveConstructor(other) == [self |-> other, other |-> MovedFrom]

\* A move assignment that marks the target open once it has taken the fd.
MoveAssignment_MarksOpen(self, other, same, r) ==
    IF same THEN [self |-> self, other |-> other, closed |-> <<>>]
    ELSE [self |-> [fd |-> other.fd, open |-> TRUE], other |-> MovedFrom,
          closed |-> IF self.open THEN close_connection(self, r).closed ELSE <<>>]

\* Connection::operator=(Connection&& other); same tells this == &other.
MoveAssignment(self, other, same, r) ==
    IF same THEN [self |-> self, other |-> other, closed |-> <<>>]
    ELSE [self |-> other, other |-> MovedFrom,
          closed |-> IF self.open THEN close_connection(self, r).closed ELSE <<>>]

(***************************************************************************)
(* State.                                                                  *)
(*   running, listen_fd, function_registry : the fields of RPCServer       *)
(*   listening   : the kernel's view, the listening endpoint is open       *)
(*   endpoints   : the kernel's view, the listening sockets of the server   *)
(*                 that are open                                           *)
(*   srvPc       : per thread that may call start(), where it is           *)
(*   pending     : the insertion a register_function call is performing    *)
(*   wpc, open, req, resp, nreq, nresp : per connection, the worker's      *)
(*       position, Connection::open, the request being answered, the       *)
(*       outcome of its dispatch, and the numbers of request frames read   *)
(*       and of responses sent                                             *)
(*   crashed     : the process has been terminated                         *)
(* History, read by the properties only:                                   *)
(*   everListening : start() has set running once                          *)
(*   createdNames  : the names registered when it first did                *)
(*   firstReg      : for each name, the handler of its first registration  *)
(*   regOutcome    : the latest register_function call and how it ended    *)
(*   log           : per connection, the exchanges completed               *)
(*   srvLast       : the latest start() or stop() call or failed accept    *)
(* Connection objects, taken by themselves:                                *)
(*   objs        : the fields fd and open of each object                   *)
(*   live        : the objects constructed and not yet destroyed           *)
(*   acquired    : the descriptors handed to a Connection constructor      *)
(*   released    : per descriptor, the close calls made on it              *)
(*   seenClosed  : history, the live objects whose is_open() has been      *)
(*                 false                                                   *)
(*   last        : history, the latest operation, its inputs and what it   *)
(*                 left                                                    *)
(*   input       : what the caller passes to the operations and what the   *)
(*                 transport answers, where a specification fixes them     *)
(*                 beforehand                                              *)
(***************************************************************************)
VARIABLES running, listen_fd, function_registry, listening, srvPc, pending,
          wpc, open, req, resp, nreq, nresp, crashed,
          everListening, createdNames, firstReg, regOutcome, log,
          endpoints, srvLast,
          objs, live, acquired, released, seenClosed, last, input

server == <<running, listen_fd, listening, endpoints, srvPc, everListening, createdNames>>
registration == <<function_registry, pending, firstReg>>
workers == <<wpc, open, req, resp, nreq, nresp>>
conn == <<objs, live, acquired, released, seenClosed, last, input>>
rpc == <<server, registration, workers, crashed, regOutcome, log, srvLast>>
vars == <<rpc, conn>>

\* The threads that may call start(): the one of main, and another.
Main == "main"
Threads == {Main, "other"}

NoOutcome == [result |-> "none"]
NoRequest == "<none>"
NoResponse == [kind |-> "none"]
ListenFd == 3

\* The Connection objects and the descriptors accept hands out.
Objs == 1..NumObjs
Handles == (ListenFd + 1)..(ListenFd + NumObjs)
NoOp == [op |-> "none"]

NoInput == [data |-> <<>>]

ObjsInit ==
    /\ objs = [o \in Objs |-> MovedFrom]
    /\ live = {}
    /\ acquired = {}
    /\ released = [h \in Handles |-> 0]
    /\ seenClosed = {}
    /\ last = NoOp

ConnInit == ObjsInit /\ input = NoInput

RpcInit ==
    /\ running = FALSE
    /\ listen_fd = -1
    /\ function_registry = EmptyRegistry
    /\ listening = FALSE
    /\ endpoints = 0
    /\ srvPc = [t \in Threads |-> "idle"]
    /\ pending = {}
    /\ wpc = [c \in Conns |-> "none"]
    /\ open = [c \in Conns |-> FALSE]
    /\ req = [c \in Conns |-> NoRequest]
    /\ resp = [c \in Conns |-> NoResponse]
    /\ nreq = [c \in Conns |-> 0]
    /\ nresp = [c \in Conns |-> 0]
    /\ crashed = FALSE
    /\ everListening = FALSE
    /\ createdNames = {}
    /\ firstReg = EmptyRegistry
    /\ regOutcome = NoOutcome
    /\ log = [c \in Conns |-> <<>>]
    /\ srvLast = NoOp

Init == RpcInit /\ ConnInit

(***************************************************************************)
(* register_function(name, func), called by any thread that holds the      *)
(* server.  RegisterCall runs it up to the map insertion, RegisterInsert   *)
(* is the insertion (line 51), which is not atomic for the workers that    *)
(* read the map.  RegisterLogged is RegisterCall with the call noted in    *)
(* regOutcome.                                                             *)
(***************************************************************************)
RegisterCall(name, func) ==
    /\ ~crashed
    /\ pending = {}
    /\ pending' = IF register_function(name, running, function_registry) = "insert"
                  THEN {[name |-> name, func |-> func]}
                  ELSE {}
    /\ UNCHANGED <<function_registry, firstReg, server, workers, crashed, log>>
    /\ UNCHANGED <<srvLast, conn>>

RegisterLogged(name, func) ==
    /\ RegisterCall(name, func)
    /\ regOutcome' = [result |-> register_function(name, running, function_registry),
                      name |-> name, func |-> func,
                      before |-> function_registry,
                      duplicate |-> name \in DOMAIN function_registry,
                      wasRunning |-> running,
                      hadListened |-> everListening]

RegisterInsert ==
    /\ ~crashed
    /\ pending # {}
    /\ \E ins \in pending :
          /\ function_registry' = Insert(function_registry, ins.name, ins.func)
          /\ firstReg' = IF ins.name \in DOMAIN firstReg THEN firstReg
                         ELSE Insert(firstReg, ins.name, ins.func)
    /\ pending' = {}
    /\ UNCHANGED <<server, workers, crashed, regOutcome, log>>
    /\ UNCHANGED <<srvLast, conn>>

(***************************************************************************)
(* RPCServer::start, step by step, in thread t.                            *)
(***************************************************************************)
\* A start that goes on to set up a socket whether the server runs or not.
StartEntry_Unguarded(isRunning) == "setup"

\* if (running) return;
StartEntry(isRunning) == IF isRunning THEN "idle" ELSE "setup"

StartCall(t) ==
    /\ ~crashed
    /\ srvPc[t] = "idle"
    /\ srvPc' = [srvPc EXCEPT ![t] = StartEntry(running)]
    /\ UNCHANGED <<running, listen_fd, listening, endpoints, everListening,
                   createdNames, registration, workers, crashed, regOutcome, log>>
    /\ UNCHANGED conn

\* StartCall with the call noted in srvLast.
StartCallLogged(t) ==
    /\ StartCall(t)
    /\ srvLast' = [op |-> "start", thread |-> t, running |-> running]

\* A bind that succeeds whatever is bound to the port.
bind_AlwaysSucceeds(alive) == Ok(0)

\* bind and listen in setup_listening_socket: the port is the server's, fixed
\* at construction, and the kernel gives it to one listening socket at a
\* time; alive is the number of listening sockets the server has open.
bind(alive) == IF alive > 0 THEN Fail("EADDRINUSE") ELSE Ok(0)

\* listen_fd = setup_listening_socket(); the socket gets the lowest
\* descriptor that is free.
StartSetup(t) ==
    /\ ~crashed
    /\ srvPc[t] = "setup"
    /\ bind(endpoints) = Ok(0)
    /\ listen_fd' = ListenFd + endpoints
    /\ listening' = TRUE
    /\ endpoints' = endpoints + 1
    /\ srvPc' = [srvPc EXCEPT ![t] = "setrunning"]
    /\ UNCHANGED <<running, everListening, createdNames,
                   registration, workers, crashed, regOutcome, log>>
    /\ UNCHANGED <<srvLast, conn>>

\* setup_listening_socket throws (socket, bind or listen failed) after
\* closing the socket it made: start ends.
StartSetupFail(t) ==
    /\ ~crashed
    /\ srvPc[t] = "setup"
    /\ srvPc' = [srvPc EXCEPT ![t] = "idle"]
    /\ UNCHANGED <<running, listen_fd, listening, endpoints, everListening,
                   createdNames, registration, workers, crashed, regOutcome, log>>
    /\ UNCHANGED <<srvLast, conn>>

\* running = true;
StartRunning(t) ==
    /\ ~crashed
    /\ srvPc[t] = "setrunning"
    /\ running' = TRUE
    /\ everListening' = TRUE
    /\ createdNames' = IF everListening THEN createdNames ELSE DOMAIN function_registry
    /\ srvPc' = [srvPc EXCEPT ![t] = "loop"]
    /\ UNCHANGED <<listen_fd, listening, endpoints, registration, workers, crashed,
                   regOutcome, log>>
    /\ UNCHANGED <<srvLast, conn>>

\* while (running)
LoopCheck(t) ==
    /\ ~crashed
    /\ srvPc[t] = "loop"
    /\ srvPc' = [srvPc EXCEPT ![t] = IF running THEN "accept" ELSE "close"]
    /\ UNCHANGED <<running, listen_fd, listening, endpoints, everListening,
                   createdNames, registration, workers, crashed, regOutcome, log>>
    /\ UNCHANGED <<srvLast, conn>>

\* accept returns a client, its descriptor now in client_fd.  Connections
\* are numbered in the order they are accepted.
AcceptConn(t, c) ==
    /\ ~crashed
    /\ srvPc[t] = "accept"
    /\ listening
    /\ wpc[c] = "none"
    /\ \A d \in Conns : d < c => wpc[d] # "none"
    /\ wpc' = [wpc EXCEPT ![c] = "accepted"]
    /\ srvPc' = [srvPc EXCEPT ![t] = "spawn"]
    /\ UNCHANGED <<running, listen_fd, listening, endpoints, everListening,
                   createdNames, registration, open, req, resp, nreq, nresp,
                   crashed, regOutcome, log>>
    /\ UNCHANGED <<srvLast, conn>>

\* std::thread(...).detach(): a detached worker thread gets the Connection
\* made from client_fd, and the loop goes on.
SpawnWorker(t, c) ==
    /\ ~crashed
    /\ srvPc[t] = "spawn"
    /\ wpc[c] = "accepted"
    /\ wpc' = [wpc EXCEPT ![c] = "recv"]
    /\ open' = [open EXCEPT ![c] = TRUE]
    /\ srvPc' = [srvPc EXCEPT ![t] = "loop"]
    /\ UNCHANGED <<running, listen_fd, listening, endpoints, everListening,
                   createdNames, registration, req, resp, nreq, nresp, crashed,
                   regOutcome, log>>
    /\ UNCHANGED <<srvLast, conn>>

\* An accept loop that ends at the first accept that fails.
AfterAcceptFailure_Breaks(isRunning) == "close"

\* if (!running) break; else the failure is logged and the loop continues.
AfterAcceptFailure(isRunning) == IF ~isRunning THEN "close" ELSE "loop"

\* accept fails.
AcceptFail(t) ==
    /\ ~crashed
    /\ srvPc[t] = "accept"
    /\ srvPc' = [srvPc EXCEPT ![t] = AfterAcceptFailure(running)]
    /\ UNCHANGED <<running, listen_fd, listening, endpoints, everListening,
                   createdNames, registration, workers, crashed, regOutcome, log>>
    /\ UNCHANGED conn

\* Connections accepted so far.
Accepted == Cardinality({c \in Conns : wpc[c] # "none"})

\* AcceptFail with the failure noted in srvLast.
AcceptFailLogged(t) ==
    /\ AcceptFail(t)
    /\ srvLast' = [op |-> "accept failed", thread |-> t, running |-> running,
                   accepted |-> Accepted]

\* close(listen_fd); start returns.
StartClose(t) ==
    /\ ~crashed
    /\ srvPc[t] = "close"
    /\ listening' = FALSE
    /\ endpoints' = IF listening THEN endpoints - 1 ELSE endpoints
    /\ srvPc' = [srvPc EXCEPT ![t] = "idle"]
    /\ UNCHANGED <<running, listen_fd, everListening, createdNames,
                   registration, workers, crashed, regOutcome, log>>
    /\ UNCHANGED <<srvLast, conn>>

\* Request frames read so far, all connections together.
RECURSIVE SumUpTo(_, _)
SumUpTo(f, n) == IF n = 0 THEN 0 ELSE f[n] + SumUpTo(f, n - 1)
Received == SumUpTo(nreq, NumConns)

(***************************************************************************)
(* RPCServer::stop, called by another thread.                              *)
(***************************************************************************)
\* A stop that closes the connections of the workers.
Stop_ClosesConnections ==
    /\ ~crashed
    /\ running
    /\ running' = FALSE
    /\ listening' = FALSE
    /\ endpoints' = IF listening THEN endpoints - 1 ELSE endpoints
    /\ open' = [c \in Conns |-> FALSE]
    /\ wpc' = [c \in Conns |-> IF wpc[c] \in {"recv", "send"} THEN "disconnected" ELSE wpc[c]]
    /\ UNCHANGED <<listen_fd, srvPc, everListening, createdNames,
                   registration, req, resp, nreq, nresp, crashed, regOutcome, log>>
    /\ UNCHANGED conn

Stop ==
    /\ ~crashed
    /\ running
    /\ running' = FALSE
    /\ listening' = FALSE
    /\ endpoints' = IF listening THEN endpoints - 1 ELSE endpoints
    /\ UNCHANGED <<listen_fd, srvPc, everListening, createdNames,
                   registration, workers, crashed, regOutcome, log>>
    /\ UNCHANGED conn

\* Stop with the call noted in srvLast.
StopLogged ==
    /\ Stop
    /\ srvLast' = [op |-> "stop", received |-> Received]

(***************************************************************************)
(* The worker of connection c: RPCServer::handle_client inside the thread  *)
(* lambda of start.                                                        *)
(***************************************************************************)
\* A worker that goes back to reading once it has the response.
AfterDispatch_Pipelined(kind) ==
    CASE kind = "return" -> "recv"
      [] kind = "throw" -> "failed"
      [] kind = "crash" -> "recv"

\* Where the worker is once process_json_request has ended: about to send
\* what it returned, gone with the exception that left it, or stopped with
\* the process where it was.
AfterDispatch(kind) ==
    CASE kind = "return" -> "send"
      [] kind = "throw" -> "failed"
      [] kind = "crash" -> "recv"

\* receive_length_prefix and receive_data deliver the frame of payload p;
\* process_json_request answers it.  An exception that leaves
\* process_json_request is no ConnectionError: it leaves handle_client too,
\* destroying the Connection, and is caught by the thread lambda.
HandleRequest(c, p) ==
    /\ ~crashed
    /\ wpc[c] = "recv"
    /\ open[c]
    /\ Received < MaxReq
    /\ nreq' = [nreq EXCEPT ![c] = @ + 1]
    /\ req' = [req EXCEPT ![c] = p]
    /\ \E o \in process_json_request(p, function_registry, pending) :
          /\ resp' = [resp EXCEPT ![c] = o]
          /\ wpc' = [wpc EXCEPT ![c] = AfterDispatch(o.kind)]
          /\ open' = [open EXCEPT ![c] = IF o.kind = "throw" THEN FALSE ELSE @]
          /\ crashed' = (o.kind = "crash")
          /\ function_registry' \in
                IF o.kind = "throw" THEN {function_registry}
                ELSE RegistryAfter(function_registry, pending,
                                   IF o.called = NoFunc THEN "" ELSE RequestedName(p),
                                   o.called)
    /\ UNCHANGED <<nresp, server, pending, firstReg, regOutcome, log>>
    /\ UNCHANGED <<srvLast, conn>>

\* A ConnectionError that no handler catches: it leaves the thread function,
\* and std::terminate ends the process.
CatchConnectionError_Uncaught == [wpc |-> "disconnected", crashed |-> TRUE]

\* catch (const ConnectionError& e) in handle_client: the error is logged and
\* handle_client returns, which ends the worker thread.
CatchConnectionError == [wpc |-> "disconnected", crashed |-> FALSE]

\* receive_data fails (peer closed, read error): ConnectionError, caught in
\* handle_client, which returns.
RecvFail(c) ==
    /\ ~crashed
    /\ wpc[c] = "recv"
    /\ open[c]
    /\ open' = [open EXCEPT ![c] = FALSE]
    /\ wpc' = [wpc EXCEPT ![c] = CatchConnectionError.wpc]
    /\ crashed' = CatchConnectionError.crashed
    /\ UNCHANGED <<req, resp, nreq, nresp, server, registration, regOutcome, log>>
    /\ UNCHANGED <<srvLast, conn>>

\* send_data writes the whole frame; the loop goes on to the next request.
SendResponse(c) ==
    /\ ~crashed
    /\ wpc[c] = "send"
    /\ open[c]
    /\ nresp' = [nresp EXCEPT ![c] = @ + 1]
    /\ wpc' = [wpc EXCEPT ![c] = "recv"]
    /\ req' = [req EXCEPT ![c] = NoRequest]
    /\ resp' = [resp EXCEPT ![c] = NoResponse]
    /\ UNCHANGED <<open, nreq, server, registration, crashed, regOutcome>>
    /\ UNCHANGED <<srvLast, conn>>

\* SendResponse with the exchange noted in log.
SendLogged(c) ==
    /\ SendResponse(c)
    /\ log' = [log EXCEPT ![c] = Append(@, [request |-> req[c], outcome |-> resp[c]])]

\* send_data fails: ConnectionError, caught in handle_client.
SendFail(c) ==
    /\ ~crashed
    /\ wpc[c] = "send"
    /\ open[c]
    /\ open' = [open EXCEPT ![c] = FALSE]
    /\ wpc' = [wpc EXCEPT ![c] = CatchConnectionError.wpc]
    /\ crashed' = CatchConnectionError.crashed
    /\ req' = [req EXCEPT ![c] = NoRequest]
    /\ resp' = [resp EXCEPT ![c] = NoResponse]
    /\ UNCHANGED <<nreq, nresp, server, registration, regOutcome, log>>
    /\ UNCHANGED <<srvLast, conn>>

(***************************************************************************)
(* The operations of Connection objects, each applied as a whole.          *)
(***************************************************************************)
\* released after close was called on the descriptors of closed.
Release(closed) ==
    [h \in Handles |->
        released[h] + (IF closed # <<>> /\ closed[1] = h THEN 1 ELSE 0)]

\* seenClosed once the objects are newObjs and the live ones newLive.
SeenClosed(newObjs, newLive) ==
    {o \in newLive : o \in seenClosed \/ ~newObjs[o].open}

\* Connection(socket_fd), with the descriptor accept returned or with -1.
Construct(o, h) ==
    /\ o \notin live
    /\ h = NoFd \/ h \in Handles \ acquired
    /\ objs' = [objs EXCEPT ![o] = Connection(h)]
    /\ live' = live \cup {o}
    /\ acquired' = acquired \cup ({h} \cap Handles)
    /\ seenClosed' = SeenClosed(objs', live')
    /\ last' = [op |-> "Connection", obj |-> o, fd |-> h]
    /\ UNCHANGED <<released, input, rpc>>

Close(o, r) ==
    /\ o \in live
    /\ LET res == close_connection(objs[o], r)
       IN  /\ objs' = [objs EXCEPT ![o] = res.self]
           /\ released' = Release(res.closed)
           /\ last' = [op |-> "close_connection", obj |-> o, before |-> objs[o],
                       r |-> r, result |-> res]
    /\ seenClosed' = SeenClosed(objs', live)
    /\ UNCHANGED <<live, acquired, input, rpc>>

Send(o, data, script) ==
    /\ o \in live
    /\ LET res == send_data(objs[o], data, script)
       IN  /\ objs' = [objs EXCEPT ![o] = res.self]
           /\ last' = [op |-> "send_data", obj |-> o, before |-> objs[o],
                       data |-> data, script |-> script, result |-> res]
    /\ seenClosed' = SeenClosed(objs', live)
    /\ UNCHANGED <<live, acquired, released, input, rpc>>

Recv(o, num_bytes, stream, script) ==
    /\ o \in live
    /\ LET res == receive_data(objs[o], num_bytes, stream, script)
       IN  /\ objs' = [objs EXCEPT ![o] = res.self]
           /\ last' = [op |-> "receive_data", obj |-> o, before |-> objs[o],
                       num_bytes |-> num_bytes, stream |-> stream,
                       script |-> script, result |-> res]
    /\ seenClosed' = SeenClosed(objs', live)
    /\ UNCHANGED <<live, acquired, released, input, rpc>>

RecvPrefix(o, stream, script, host) ==
    /\ o \in live
    /\ LET res == receive_length_prefix(objs[o], stream, script, host)
       IN  /\ objs' = [objs EXCEPT ![o] = res.self]
           /\ last' = [op |-> "receive_length_prefix", obj |-> o,
                       before |-> objs[o], stream |-> stream, script |-> script,
                       host |-> host, result |-> res]
    /\ seenClosed' = SeenClosed(objs', live)
    /\ UNCHANGED <<live, acquired, released, input, rpc>>

\* The worker's receive_length_prefix followed by receive_data(length).
RecvRequest(o, stream, script, host) ==
    /\ o \in live
    /\ LET res == receive_request(objs[o], stream, script, host)
       IN  /\ objs' = [objs EXCEPT ![o] = res.self]
           /\ last' = [op |-> "receive_request", obj |-> o, before |-> objs[o],
                       stream |-> stream, script |-> script, host |-> host,
                       result |-> res]
    /\ seenClosed' = SeenClosed(objs', live)
    /\ UNCHANGED <<live, acquired, released, input, rpc>>

\* Connection o(std::move(other));
MoveConstruct(o, other) ==
    /\ o \notin live
    /\ other \in live
    /\ LET res == MoveConstructor(objs[other])
       IN  /\ objs' = [objs EXCEPT ![o] = res.self, ![other] = res.other]
           /\ last' = [op |-> "move", obj |-> o, other |-> other,
                       before |-> objs[other], result |-> res]
    /\ live' = live \cup {o}
    /\ seenClosed' = SeenClosed(objs', live')
    /\ UNCHANGED <<acquired, released, input, rpc>>

\* o = std::move(other);
MoveAssign(o, other, r) ==
    /\ o \in live
    /\ other \in live
    /\ LET res == MoveAssignment(objs[o], objs[other], o = other, r)
       IN  /\ objs' = [objs EXCEPT ![other] = res.other, ![o] = res.self]
           /\ released' = Release(res.closed)
           /\ last' = [op |-> "operator=", obj |-> o, other |-> other,
                       before |-> objs[o], source |-> objs[other], r |-> r,
                       result |-> res]
    /\ seenClosed' = SeenClosed(objs', live)
    /\ UNCHANGED <<live, acquired, input, rpc>>

\* ~Connection(): the object is gone.
Destroy(o, r) ==
    /\ o \in live
    /\ LET res == Destructor(objs[o], r)
       IN  /\ objs' = [objs EXCEPT ![o] = MovedFrom]
           /\ released' = Release(res.closed)
           /\ last' = [op |-> "~Connection", obj |-> o, before |-> objs[o],
                       r |-> r, result |-> res]
    /\ live' = live \ {o}
    /\ seenClosed' = SeenClosed(objs', live')
    /\ UNCHANGED <<acquired, input, rpc>>

(***************************************************************************)
(* What the callers pass and what the transport answers.                   *)
(***************************************************************************)
Scripts(answers) == UNION {[1..n -> answers] : n \in 0..MaxScript}
Whole == Ok(MaxData + 5)
Answers == {Ok(2), Whole, Fail("EINTR"), Fail("ECONNRESET")}
CloseAnswers == {Ok(0), Fail("EIO")}
Buffer(n) == [i \in 1..n |-> (i * 85) % 256]
Buffers == {Buffer(n) : n \in 0..MaxData}
Streams ==
    { <<>>, <<0, 0>>, <<0, 0, 0, 0>>, <<0, 0, 0, 1, 9>>, <<0, 0, 0, 2, 9, 8, 7>>,
      <<0, 0, 0, 2, 9>>, <<0, 0, 1, 0, 9>>, <<1, 2, 3, 4>>, <<255, 0, 0, 128>> }
Inputs ==
    [data : Buffers, num_bytes : 0..MaxData, stream : Streams,
     script : Scripts(Answers), host : Hosts]

(***************************************************************************)
(* SpecIo: one Connection, with the operations applied to inputs and       *)
(* transport answers fixed beforehand, any of them.                        *)
(***************************************************************************)
InitIo == RpcInit /\ ObjsInit /\ input \in Inputs

NextIo ==
    \/ \E h \in {NoFd, ListenFd + 1} : Construct(1, h)
    \/ \E r \in CloseAnswers : Close(1, r)
    \/ Send(1, input.data, input.script)
    \/ Recv(1, input.num_bytes, input.stream, input.script)
    \/ RecvPrefix(1, input.stream, input.script, input.host)
    \/ RecvRequest(1, input.stream, input.script, input.host)
    \/ \E r \in CloseAnswers : Destroy(1, r)

SpecIo == InitIo /\ [][NextIo]_vars

(***************************************************************************)
(* SpecConn: the Connection objects, constructed, used, moved, closed and  *)
(* destroyed in any order; the transfers are of one byte and succeed or    *)
(* fail.                                                                   *)
(***************************************************************************)
NextConn ==
    \/ \E o \in Objs, h \in Handles \cup {NoFd} : Construct(o, h)
    \/ \E o \in Objs, r \in CloseAnswers : Close(o, r)
    \/ \E o \in Objs, script \in {<<>>, <<Fail("EPIPE")>>} : Send(o, Buffer(1), script)
    \/ \E o \in Objs, stream \in {<<>>, <<9>>},
          script \in {<<>>, <<Fail("ECONNRESET")>>} : Recv(o, 1, stream, script)
    \/ \E o \in Objs, other \in Objs : MoveConstruct(o, other)
    \/ \E o \in Objs, other \in Objs, r \in CloseAnswers : MoveAssign(o, other, r)
    \/ \E o \in Objs, r \in CloseAnswers : Destroy(o, r)

SpecConn == Init /\ [][NextConn]_vars

(***************************************************************************)
(* Spec: the server, its registering and stopping callers and the workers  *)
(* of all connections, serving Requests.                                   *)
(***************************************************************************)
Next ==
    \/ \E name \in Names, func \in Handlers :
          RegisterCall(name, func) /\ UNCHANGED regOutcome
    \/ RegisterInsert
    \/ StartCall(Main) /\ UNCHANGED srvLast
    \/ StartSetup(Main)
    \/ StartSetupFail(Main)
    \/ StartRunning(Main)
    \/ LoopCheck(Main)
    \/ \E c \in Conns : AcceptConn(Main, c)
    \/ \E c \in Conns : SpawnWorker(Main, c)
    \/ AcceptFail(Main) /\ UNCHANGED srvLast
    \/ StartClose(Main)
    \/ Stop /\ UNCHANGED srvLast
    \/ \E c \in Conns, p \in Requests : HandleRequest(c, p)
    \/ \E c \in Conns : RecvFail(c)
    \/ \E c \in Conns : SendResponse(c) /\ UNCHANGED log
    \/ \E c \in Conns : SendFail(c)

Spec == Init /\ [][Next]_vars

(***************************************************************************)
(* SpecReg: the life cycle of the server and of its registry, every        *)
(* register_function call noted; the workers hold their connections        *)
(* without serving a request.                                              *)
(***************************************************************************)
NextReg ==
    \/ \E name \in Names, func \in Handlers : RegisterLogged(name, func)
    \/ RegisterInsert
    \/ StartCall(Main) /\ UNCHANGED srvLast
    \/ StartSetup(Main)
    \/ StartSetupFail(Main)
    \/ StartRunning(Main)
    \/ LoopCheck(Main)
    \/ \E c \in Conns : AcceptConn(Main, c)
    \/ \E c \in Conns : SpawnWorker(Main, c)
    \/ AcceptFail(Main) /\ UNCHANGED srvLast
    \/ StartClose(Main)
    \/ Stop /\ UNCHANGED srvLast
    \/ \E c \in Conns : RecvFail(c)

SpecReg == Init /\ [][NextReg]_vars

(***************************************************************************)
(* SpecWorker: the worker loop of one connection of a listening server,    *)
(* for every registry the registrations can have built and every payload   *)
(* of Payloads, each exchange noted in log.                                *)
(***************************************************************************)
PendingFor(reg) ==
    {{}} \cup {{[name |-> n, func |-> f]} : n \in Names \ DOMAIN reg, f \in Handlers}

InitWorker ==
    /\ running = TRUE
    /\ listen_fd = ListenFd
    /\ function_registry \in Registries
    /\ listening = TRUE
    /\ endpoints = 1
    /\ srvPc = [t \in Threads |-> IF t = Main THEN "accept" ELSE "idle"]
    /\ pending \in PendingFor(function_registry)
    /\ wpc = [c \in Conns |-> IF c = 1 THEN "recv" ELSE "none"]
    /\ open = [c \in Conns |-> c = 1]
    /\ req = [c \in Conns |-> NoRequest]
    /\ resp = [c \in Conns |-> NoResponse]
    /\ nreq = [c \in Conns |-> 0]
    /\ nresp = [c \in Conns |-> 0]
    /\ crashed = FALSE
    /\ everListening = TRUE
    /\ createdNames = DOMAIN function_registry
    /\ firstReg = function_registry
    /\ regOutcome = NoOutcome
    /\ log = [c \in Conns |-> <<>>]
    /\ srvLast = NoOp
    /\ ConnInit

NextWorker ==
    \/ \E p \in Payloads : HandleRequest(1, p)
    \/ SendLogged(1)
    \/ SendFail(1)
    \/ RecvFail(1)
    \/ RegisterInsert

SpecWorker == InitWorker /\ [][NextWorker]_vars

(***************************************************************************)
(* SpecOrder: the workers of all connections of a listening server with    *)
(* both handlers registered.  The client of each connection sends the      *)
(* requests of input.requests for it, in that order; each exchange is      *)
(* noted in log.                                                           *)
(***************************************************************************)
OrderRequests ==
    { "{\"function\":\"add\",\"args\":[2,3]}",
      "{\"function\":\"divide\",\"args\":[1,0]}" }

OrderInputs == [requests : [Conns -> [1..MaxReq -> OrderRequests]]]

InitOrder ==
    /\ running = TRUE
    /\ listen_fd = ListenFd
    /\ function_registry = [n \in Names |-> n]
    /\ listening = TRUE
    /\ endpoints = 1
    /\ srvPc = [t \in Threads |-> IF t = Main THEN "accept" ELSE "idle"]
    /\ pending = {}
    /\ wpc = [c \in Conns |-> "recv"]
    /\ open = [c \in Conns |-> TRUE]
    /\ req = [c \in Conns |-> NoRequest]
    /\ resp = [c \in Conns |-> NoResponse]
    /\ nreq = [c \in Conns |-> 0]
    /\ nresp = [c \in Conns |-> 0]
    /\ crashed = FALSE
    /\ everListening = TRUE
    /\ createdNames = DOMAIN function_registry
    /\ firstReg = function_registry
    /\ regOutcome = NoOutcome
    /\ log = [c \in Conns |-> <<>>]
    /\ srvLast = NoOp
    /\ ObjsInit
    /\ input \in OrderInputs

NextOrder ==
    \/ \E c \in Conns : HandleRequest(c, input.requests[c][nreq[c] + 1])
    \/ \E c \in Conns : SendLogged(c)
    \/ \E c \in Conns : SendFail(c)
    \/ \E c \in Conns : RecvFail(c)

SpecOrder == InitOrder /\ [][NextOrder]_vars

(***************************************************************************)
(* SpecLife: the life cycle of the server with start() called by two       *)
(* threads and stop() by a third, each call and each failed accept noted   *)
(* in srvLast, and the workers serving one request a time, each exchange   *)
(* noted in log.  It begins where main calls start(): the server            *)
(* constructed, its functions registered.                                  *)
(***************************************************************************)
LifeRequests == {"{\"function\":\"add\",\"args\":[2,3]}"}

InitLife ==
    /\ running = FALSE
    /\ listen_fd = -1
    /\ function_registry = [n \in Names |-> n]
    /\ listening = FALSE
    /\ endpoints = 0
    /\ srvPc = [t \in Threads |-> "idle"]
    /\ pending = {}
    /\ wpc = [c \in Conns |-> "none"]
    /\ open = [c \in Conns |-> FALSE]
    /\ req = [c \in Conns |-> NoRequest]
    /\ resp = [c \in Conns |-> NoResponse]
    /\ nreq = [c \in Conns |-> 0]
    /\ nresp = [c \in Conns |-> 0]
    /\ crashed = FALSE
    /\ everListening = FALSE
    /\ createdNames = {}
    /\ firstReg = function_registry
    /\ regOutcome = NoOutcome
    /\ log = [c \in Conns |-> <<>>]
    /\ srvLast = NoOp
    /\ ConnInit

NextLife ==
    \/ \E t \in Threads : StartCallLogged(t)
    \/ \E t \in Threads : StartSetup(t)
    \/ \E t \in Threads : StartSetupFail(t)
    \/ \E t \in Threads : StartRunning(t)
    \/ \E t \in Threads : LoopCheck(t)
    \/ \E t \in Threads, c \in Conns : AcceptConn(t, c)
    \/ \E t \in Threads, c \in Conns : SpawnWorker(t, c)
    \/ \E t \in Threads : AcceptFailLogged(t)
    \/ \E t \in Threads : StartClose(t)
    \/ StopLogged
    \/ \E c \in Conns, p \in LifeRequests : HandleRequest(c, p)
    \/ \E c \in Conns : SendLogged(c)
    \/ \E c \in Conns : RecvFail(c)
    \/ \E c \in Conns : SendFail(c)

SpecLife == InitLife /\ [][NextLife]_vars

(***************************************************************************)
(* What the properties say about a payload.                                *)
(***************************************************************************)
IsPayload(p) == p # NoRequest
Malformed(p) == IsPayload(p) /\ ~parseFromStream(p).ok
WellFormed(p) == IsPayload(p) /\ parseFromStream(p).ok
Root(p) == parseFromStream(p).root
IsObject(p) == WellFormed(p) /\ Root(p).type = "object"
HasBoth(p) == IsObject(p) /\ isMember(Root(p), "function") /\ isMember(Root(p), "args")
HasName(p) == HasBoth(p) /\ ~asStringThrows(Root(p).members.function)
FuncName(p) == asString(Root(p).members.function)
Args(p) == Root(p).members.args
ValidRequest(p) ==
    /\ HasBoth(p)
    /\ Root(p).members.function.type = "string"
    /\ Args(p).type = "array"

Answered(c) == resp[c].kind # "none"
Returned(c) == resp[c].kind = "return"
Status(o) == o.response.members.status.s
Message(o) == o.response.members.message.s
WellFramed(o) ==
    /\ o.frame.payload = WriteEnvelope(o.response)
    /\ o.frame.prefix = htonl(Len(o.frame.payload))

(***************************************************************************)
(* C1: for every payload process_json_request returns a length-prefixed    *)
(* response and no exception escapes it, so that no payload ends the       *)
(* worker loop of handle_client.                                           *)
(***************************************************************************)
C1_EveryPayloadAnswered ==
    \A c \in Conns :
        /\ Answered(c) => Returned(c) /\ WellFramed(resp[c])
        /\ wpc[c] # "failed"

(***************************************************************************)
(* C2: a payload that is well-formed JSON but no object gets a response    *)
(* with status "error"; the worker stays alive, its connection open.       *)
(***************************************************************************)
C2_NonObjectAnswered ==
    \A c \in Conns :
        (WellFormed(req[c]) /\ ~IsObject(req[c])) =>
            /\ Returned(c)
            /\ Status(resp[c]) = "error"
            /\ wpc[c] = "send"
            /\ open[c]

(***************************************************************************)
(* C3: a frame of malformed JSON is answered by exactly one response of    *)
(* status "error" whose message is "Invalid JSON: " followed by the        *)
(* reader's diagnostic; once send_data has written it the connection is    *)
(* open and the worker waits for the next frame (only a failing send_data  *)
(* ends it instead); the request read next is dispatched as any request    *)
(* is, and its response goes out the same way.                             *)
(***************************************************************************)
InvalidJsonOutcome(p) ==
    Return(ErrorResponse("Invalid JSON: " \o parseFromStream(p).errors), NoFunc)

LastWasMalformed(c) ==
    /\ log[c] # <<>>
    /\ Malformed(log[c][Len(log[c])].request)

C3Step(c) ==
    /\ (nreq'[c] = nreq[c] + 1 /\ Malformed(req'[c])) =>
          /\ resp'[c] = InvalidJsonOutcome(req'[c])
          /\ wpc'[c] = "send"
          /\ open'[c]
          /\ nresp'[c] = nresp[c]
          /\ ~crashed'
    /\ (wpc[c] = "send" /\ Malformed(req[c]) /\ wpc'[c] # "send") =>
          \/ /\ wpc'[c] = "recv"
             /\ open'[c]
             /\ nresp'[c] = nresp[c] + 1
             /\ log'[c] = Append(log[c], [request |-> req[c],
                                          outcome |-> InvalidJsonOutcome(req[c])])
          \/ /\ wpc'[c] = "disconnected"
             /\ nresp'[c] = nresp[c]
    /\ (LastWasMalformed(c) /\ nreq'[c] = nreq[c] + 1) =>
          /\ wpc[c] = "recv"
          /\ open[c]
          /\ resp'[c] \in process_json_request(req'[c], function_registry, pending)
          /\ resp'[c].kind = "return" => wpc'[c] = "send" /\ open'[c]
    /\ (LastWasMalformed(c) /\ nresp'[c] # nresp[c]) =>
          /\ nresp'[c] = nresp[c] + 1
          /\ log'[c] = Append(log[c], [request |-> req[c], outcome |-> resp[c]])
          /\ wpc'[c] = "recv"
          /\ open'[c]

C3_MalformedJsonAnswered == [][\A c \in Conns : C3Step(c)]_vars

\* A malformed first request was answered, and the request after it, on the
\* same connection, got a success response; the connection is still open.
C3_Witness ==
    \E c \in Conns :
        /\ Len(log[c]) >= 2
        /\ Malformed(log[c][1].request)
        /\ log[c][1].outcome = InvalidJsonOutcome(log[c][1].request)
        /\ Status(log[c][2].outcome) = "success"
        /\ wpc[c] = "recv"
        /\ open[c]

(***************************************************************************)
(* C4: when a registered handler that dispatch invoked fails, the response *)
(* is the error "Execution error: " followed by the handler's message; the *)
(* worker goes on to send it with its connection open, and the process     *)
(* lives on.                                                               *)
(***************************************************************************)
HandlerFailed(c) ==
    /\ resp[c].kind \in {"return", "crash"}
    /\ resp[c].called \in Handlers
    /\ resp[c].kind = "return" => Status(resp[c]) = "error"

C4_HandlerFailureContained ==
    \A c \in Conns :
        HandlerFailed(c) =>
            /\ Returned(c)
            /\ \E o \in Invoke(resp[c].called, Args(req[c])) :
                  /\ o.kind = "throw"
                  /\ Message(resp[c]) = "Execution error: " \o o.what
            /\ wpc[c] = "send"
            /\ open[c]
            /\ ~crashed

(***************************************************************************)
(* C5: a request object with "function" and "args" whose function name is  *)
(* neither a key of the registry nor being inserted into it gets exactly   *)
(* the error "Function not found", and no handler is invoked.              *)
(***************************************************************************)
Unregistered(name) ==
    /\ name \notin DOMAIN function_registry
    /\ \A ins \in pending : ins.name # name

FunctionNotFound == Return(ErrorResponse("Function not found"), NoFunc)

C5_UnknownFunction ==
    \A c \in Conns :
        (Answered(c) /\ HasName(req[c]) /\ Unregistered(FuncName(req[c]))) =>
            resp[c] = FunctionNotFound

\* A request for an unregistered name ("add", or 5 read as "5") has been
\* answered so, by a server that has other functions registered.
C5_Witness ==
    \E c \in Conns :
        /\ wpc[c] = "send"
        /\ HasName(req[c])
        /\ FuncName(req[c]) \in {"add", "5"}
        /\ Unregistered(FuncName(req[c]))
        /\ resp[c] = FunctionNotFound
        /\ function_registry # EmptyRegistry

(***************************************************************************)
(* C6: a request object lacking "function" or lacking "args" gets the      *)
(* error "Missing 'function' or 'args' field" and no handler is invoked,   *)
(* whether the function it names is registered or not.                     *)
(***************************************************************************)
LacksField(p) == IsObject(p) /\ ~HasBoth(p)

MissingField == Return(ErrorResponse("Missing 'function' or 'args' field"), NoFunc)

C6_MissingField ==
    \A c \in Conns :
        (Answered(c) /\ LacksField(req[c])) => resp[c] = MissingField

\* The request names a registered function and lacks "args".
C6_Witness ==
    \E c \in Conns :
        /\ wpc[c] = "send"
        /\ LacksField(req[c])
        /\ isMember(Root(req[c]), "function")
        /\ asString(Root(req[c]).members.function) \in DOMAIN function_registry
        /\ resp[c] = MissingField

(***************************************************************************)
(* C7: a valid request (string "function", array "args") gets exactly one  *)
(* response, Success with exactly the value the handler returned or an     *)
(* Error; on each connection the responses sent never exceed the request   *)
(* frames read and equal them whenever the worker waits for a length       *)
(* prefix.                                                                 *)
(***************************************************************************)
C7_OneResponsePerRequest ==
    \A c \in Conns :
        /\ (Answered(c) /\ ValidRequest(req[c])) =>
              /\ Returned(c)
              /\ Status(resp[c]) \in {"success", "error"}
              /\ Status(resp[c]) = "success" =>
                    Value(resp[c].response.members.result)
                        \in CallRegistered(resp[c].called, Args(req[c]))
        /\ nresp[c] <= nreq[c]
        /\ wpc[c] = "recv" => nresp[c] = nreq[c]

(***************************************************************************)
(* C8: once start() has made the server listen, and also after stop(),     *)
(* every register_function call fails, and the registry keeps the names it *)
(* had when listening began.                                               *)
(***************************************************************************)
C8_NoRegistrationOnceListening ==
    /\ (regOutcome.result # "none" /\ regOutcome.hadListened) =>
          regOutcome.result = "threw"
    /\ everListening => DOMAIN function_registry = createdNames

(***************************************************************************)
(* C9 as stated: registering a name already in the registry never raises   *)
(* and leaves the registry as it was.                                      *)
(***************************************************************************)
C9_DuplicateNeverRaises ==
    (regOutcome.result # "none" /\ regOutcome.duplicate) =>
        /\ regOutcome.result = "warned"
        /\ function_registry = regOutcome.before

(***************************************************************************)
(* C9, amended: registering a name already in the registry while the       *)
(* server is not running warns without raising, and while it is running    *)
(* raises; either way the registry is left exactly as it was.  Each name   *)
(* keeps the handler of its first registration, and that is the handler a  *)
(* dispatch finds for it, however many registrations of the name follow.   *)
(***************************************************************************)
C9_DuplicateKeepsFirst ==
    /\ (regOutcome.result # "none" /\ regOutcome.duplicate) =>
          /\ regOutcome.result = (IF regOutcome.wasRunning THEN "threw" ELSE "warned")
          /\ function_registry = regOutcome.before
          /\ pending = {}
    /\ \A n \in DOMAIN function_registry :
          /\ n \in DOMAIN firstReg
          /\ function_registry[n] = firstReg[n]
          /\ pending = {} =>
                Lookup(function_registry, pending, n) = {Found(firstReg[n])}

\* A name has been registered again, with another handler, without raising.
C9_Witness ==
    /\ regOutcome.result = "warned"
    /\ regOutcome.duplicate
    /\ regOutcome.name \in DOMAIN function_registry
    /\ regOutcome.func # function_registry[regOutcome.name]
    /\ function_registry[regOutcome.name] = firstReg[regOutcome.name]

(***************************************************************************)
(* C10: a name registered before start() is found by every dispatch after  *)
(* it: no request naming it is answered "Function not found".              *)
(***************************************************************************)
C10_RegisteredBeforeStartFound ==
    \A c \in Conns :
        (Returned(c) /\ HasName(req[c])
                     /\ resp[c].response = ErrorResponse("Function not found")) =>
            FuncName(req[c]) \notin createdNames

(***************************************************************************)
(* What the properties say about the latest operation of a Connection.     *)
(***************************************************************************)
Did(op) == last.op = op
OnOpen(op) == Did(op) /\ last.before.open
OnClosed(op) == Did(op) /\ ~last.before.open
Threw == last.result.error # NoError
Interrupted(r) == r = Fail("EINTR")
Failure(r) == r.ret < 0 /\ ~Interrupted(r)
Failures(script) == {script[i] : i \in {j \in DOMAIN script : Failure(script[j])}}
IsPrefix(s, t) == Len(s) <= Len(t) /\ s = SubSeq(t, 1, Len(s))
Take(s, n) == SubSeq(s, 1, Min(n, Len(s)))
Drop(s, n) == IF n >= Len(s) THEN <<>> ELSE SubSeq(s, n + 1, Len(s))

(***************************************************************************)
(* C11 as stated: a Connection object whose is_open() has been false is    *)
(* never open again, whatever is done with it, move assignment included.   *)
(***************************************************************************)
C11_ClosedStaysClosed ==
    \A o \in live : o \in seenClosed => ~objs[o].open

(***************************************************************************)
(* C11, amended: send_data, receive_data, receive_length_prefix,           *)
(* close_connection and being moved from never make a closed Connection    *)
(* object open.  A closed object becomes open again in one way only: an    *)
(* open Connection is move-assigned to it, and then it takes over that     *)
(* connection's descriptor while the source becomes closed.  The          *)
(* connection itself, known by its descriptor, is never open again in any  *)
(* object once an object held it closed.                                   *)
(***************************************************************************)
C11Handle(h) ==
    (\E o \in live : objs[o].fd = h /\ ~objs[o].open) =>
        \A p \in live' : objs'[p].fd = h => ~objs'[p].open

C11Step(o) ==
    (o \in live /\ o \in live' /\ ~objs[o].open /\ objs'[o].open) =>
        /\ last'.op = "operator="
        /\ last'.obj = o
        /\ last'.other # o
        /\ objs[last'.other].open
        /\ objs'[o] = objs[last'.other]
        /\ objs'[last'.other] = MovedFrom

C11_ClosedUntilAssigned ==
    [][(\A o \in Objs : C11Step(o)) /\ (\A h \in Handles : C11Handle(h))]_vars

\* An object that had been closed is open: an open one was assigned to it.
C11_Witness ==
    /\ Did("operator=")
    /\ last.obj \in seenClosed
    /\ ~last.before.open
    /\ objs[last.obj].open
    /\ objs[last.other] = MovedFrom

(***************************************************************************)
(* C12: on a closed connection send_data, receive_data and                 *)
(* receive_length_prefix throw ConnectionError at once: no send or recv    *)
(* call is made, nothing goes to the wire or leaves the stream, and fd and *)
(* open are as before.                                                     *)
(***************************************************************************)
C12_ClosedFailsAtOnce ==
    /\ OnClosed("send_data") =>
          /\ last.result.error = "Connection is closed"
          /\ last.result.calls = 0
          /\ last.result.wire = <<>>
          /\ last.result.self = last.before
    /\ (OnClosed("receive_data") \/ OnClosed("receive_length_prefix")) =>
          /\ last.result.error = "Connection is closed"
          /\ last.result.calls = 0
          /\ last.result.rest = last.stream
          /\ last.result.self = last.before
    /\ \A op \in {"send_data", "receive_data", "receive_length_prefix"} :
          OnClosed(op) => objs[last.obj] = last.before

\* receive_length_prefix on a connection a failed transfer had closed, its
\* descriptor still in fd, with bytes waiting in the stream.
C12_Witness ==
    /\ OnClosed("receive_length_prefix")
    /\ last.before.fd # NoFd
    /\ Len(last.stream) >= 4
    /\ Threw

(***************************************************************************)
(* C13: close_connection never throws.  On an open connection it hands fd  *)
(* to close once and leaves open false, also when close fails (which is    *)
(* logged); on a closed one, and so in every later call, it changes        *)
(* nothing and closes nothing.                                             *)
(***************************************************************************)
C13_CloseIdempotent ==
    Did("close_connection") =>
        /\ ~Threw
        /\ last.before.open =>
              /\ last.result.closed = <<last.before.fd>>
              /\ ~last.result.self.open
              /\ last.result.logged = (last.r.ret < 0)
        /\ ~last.before.open =>
              /\ last.result.closed = <<>>
              /\ last.result.self = last.before
              /\ ~last.result.logged
        /\ \A r \in CloseAnswers :
              close_connection(last.result.self, r) = Untouched(last.result.self)
        /\ objs[last.obj] = last.result.self

\* A later call: the descriptor has been released, the call released nothing.
C13_Witness ==
    /\ OnClosed("close_connection")
    /\ last.before.fd = NoFd
    /\ \E h \in Handles : released[h] = 1
    /\ last.r = Fail("EIO")

(***************************************************************************)
(* C14: the descriptor a Connection was created from is handed to close    *)
(* exactly once by the time no object holds it: never twice, and not zero  *)
(* times once its last holder is destroyed.                                *)
(***************************************************************************)
Held(h) == \E o \in live : objs[o].fd = h

C14_ReleasedExactlyOnce ==
    \A h \in acquired :
        /\ released[h] <= 1
        /\ ~Held(h) => released[h] = 1
        /\ Held(h) => released[h] = 0

(***************************************************************************)
(* C15: send_data on an open connection puts the whole buffer on the wire, *)
(* each byte once and in order, however the transport splits the writes    *)
(* and however often it interrupts them; it fails only when a write fails  *)
(* otherwise, and then the connection is closed and ConnectionError tells  *)
(* the failure.                                                            *)
(***************************************************************************)
C15_SendsWholeBuffer ==
    OnOpen("send_data") =>
        /\ ~Threw =>
              /\ last.result.wire = last.data
              /\ last.result.self = last.before
        /\ Failures(last.script) = {} => ~Threw
        /\ Threw =>
              /\ ~last.result.self.open
              /\ last.result.self.fd = last.before.fd
              /\ IsPrefix(last.result.wire, last.data)
              /\ last.result.wire # last.data
              /\ \E r \in Failures(last.script) :
                    last.result.error = "Send error: " \o strerror(r.errno)

\* A buffer sent whole through an interruption and partial writes.
C15_Witness ==
    /\ OnOpen("send_data")
    /\ ~Threw
    /\ Len(last.data) = MaxData
    /\ last.script = <<Fail("EINTR"), Ok(2)>>
    /\ last.result.calls > 2

(***************************************************************************)
(* C16: receive_data(n) on an open connection returns the next n bytes of  *)
(* the stream, in order, and leaves the stream after them, however recv    *)
(* splits them (down to one byte a call) and however often it is           *)
(* interrupted; so the worker gets the payload its length prefix           *)
(* announces.                                                              *)
(***************************************************************************)
C16_ReceivesExactly ==
    /\ OnOpen("receive_data") =>
          /\ ~Threw =>
                /\ Len(last.result.data) = last.num_bytes
                /\ last.result.data = Take(last.stream, last.num_bytes)
                /\ last.result.rest = Drop(last.stream, last.num_bytes)
                /\ last.result.self = last.before
          /\ (Failures(last.script) = {} /\ Len(last.stream) >= last.num_bytes) =>
                ~Threw
    /\ (OnOpen("receive_request") /\ ~Threw) =>
          /\ last.result.length = Take(last.stream, 4)
          /\ last.result.request =
                Take(Drop(last.stream, 4), ToSize(last.result.length))
          /\ last.result.rest = Drop(last.stream, 4 + ToSize(last.result.length))

\* MaxData bytes received one byte a call, with more left in the stream.
C16_Witness ==
    /\ OnOpen("receive_data")
    /\ ~Threw
    /\ last.script = <<>>
    /\ last.num_bytes = MaxData
    /\ last.result.calls = MaxData
    /\ last.result.rest # <<>>

(***************************************************************************)
(* C17 as stated: when recv returns 0 before all n bytes are there,        *)
(* receive_data fails with ConnectionError("connection closed by peer").   *)
(***************************************************************************)
PeerClosedEarly ==
    /\ OnOpen("receive_data")
    /\ Len(last.stream) < last.num_bytes
    /\ Failures(last.script) = {}

C17_PeerClosedLowerCase ==
    PeerClosedEarly => last.result.error = "connection closed by peer"

(***************************************************************************)
(* C17, amended: when recv returns 0 before all n bytes are there,         *)
(* receive_data closes the connection and throws the ConnectionError       *)
(* "Connection closed by peer", returning no data; no other failure of     *)
(* receive_data has this message (a failing recv gives "Receive error: "   *)
(* and the reason, a closed connection "Connection is closed").            *)
(***************************************************************************)
C17_PeerClosedDistinct ==
    /\ PeerClosedEarly =>
          /\ last.result.error = "Connection closed by peer"
          /\ ~last.result.self.open
          /\ last.result.data = <<>>
    /\ (Did("receive_data") /\ last.result.error = "Connection closed by peer") =>
          /\ last.before.open
          /\ Len(last.stream) < last.num_bytes
          /\ last.result.rest = <<>>
    /\ (Did("receive_data") /\ Threw /\ last.result.rest # <<>>) =>
          \/ /\ ~last.before.open
             /\ last.result.error = "Connection is closed"
          \/ \E r \in Failures(last.script) :
                last.result.error = "Receive error: " \o strerror(r.errno)

\* The peer closed after two bytes of the three asked for.
C17_Witness ==
    /\ PeerClosedEarly
    /\ last.stream = <<0, 0>>
    /\ last.num_bytes = 3
    /\ last.script = <<Fail("EINTR")>>
    /\ last.result.error = "Connection closed by peer"

(***************************************************************************)
(* C18: receive_length_prefix takes exactly four bytes b0 b1 b2 b3 from    *)
(* the stream and returns the uint32_t b0*2^24 + b1*2^16 + b2*2^8 + b3, on *)
(* a host of either byte order; the worker then reads exactly that many    *)
(* bytes, which are the request.                                           *)
(***************************************************************************)
WordValue(w) == ((w[1] * 256 + w[2]) * 256 + w[3]) * 256 + w[4]

C18_BigEndianLength ==
    /\ (OnOpen("receive_length_prefix") /\ ~Threw) =>
          /\ last.result.length = Take(last.stream, 4)
          /\ last.result.rest = Drop(last.stream, 4)
          /\ last.stream[1] < 128 =>
                WordValue(last.result.length) =
                    last.stream[1] * 16777216 + last.stream[2] * 65536
                    + last.stream[3] * 256 + last.stream[4]
    /\ (OnOpen("receive_request") /\ ~Threw) =>
          /\ last.result.length = Take(last.stream, 4)
          /\ Len(last.result.request) = WordValue(last.result.length)
          /\ last.result.request =
                Take(Drop(last.stream, 4), WordValue(last.result.length))
          /\ last.result.rest = Drop(last.stream, 4 + WordValue(last.result.length))

\* On a little-endian host: prefix 0 0 0 2, request 9 8, and 7 left unread.
C18_Witness ==
    /\ OnOpen("receive_request")
    /\ ~Threw
    /\ last.host = "little"
    /\ last.stream = <<0, 0, 0, 2, 9, 8, 7>>
    /\ last.result.length = <<0, 0, 0, 2>>
    /\ last.result.request = <<9, 8>>
    /\ last.result.rest = <<7>>

(***************************************************************************)
(* C19: the listening endpoint that start() opened is closed exactly once: *)
(* each close(listen_fd), the one of stop() and the one start() makes on   *)
(* leaving the accept loop, finds the endpoint still open; and stop() on a *)
(* server that is not running changes nothing.                             *)
(***************************************************************************)
StopCloses == running /\ ~running'
LoopCloses == srvPc[Main] = "close" /\ srvPc'[Main] = "idle"

C19_ListenerClosedOnce ==
    [][(StopCloses \/ LoopCloses) => (listening /\ ~listening')]_vars

(***************************************************************************)
(* C20: once stop() has returned, no connection is accepted and no worker  *)
(* is started, for every interleaving of stop() with the accept loop.      *)
(***************************************************************************)
Accepts(c) == wpc[c] = "none" /\ wpc'[c] = "accepted"
Spawns(c) == wpc[c] = "accepted" /\ wpc'[c] = "recv"

C20_NothingAfterStop ==
    [][\A c \in Conns : (Accepts(c) \/ Spawns(c)) => running]_vars

(***************************************************************************)
(* C28 as stated: after a move construction or a move assignment the       *)
(* source object is closed and holds no descriptor.                        *)
(***************************************************************************)
C28_SourceAlwaysClosed ==
    (Did("move") \/ Did("operator=")) => objs[last.other] = MovedFrom

(***************************************************************************)
(* C28, amended: a move hands the descriptor over.  After a move           *)
(* construction, and after a move assignment between two objects, the      *)
(* target has the fd and open of the source and the source is closed with  *)
(* fd -1; a target that was open has had its own descriptor closed, once;  *)
(* a move assignment of an object to itself changes nothing.  No           *)
(* descriptor is ever the fd of two objects, and destroying a moved-from    *)
(* object closes nothing.                                                  *)
(***************************************************************************)
Owners(h) == {o \in live : objs[o].fd = h}

C28_MoveTransfersOwnership ==
    /\ \A h \in Handles : Cardinality(Owners(h)) <= 1
    /\ Did("move") =>
          /\ objs[last.obj] = last.before
          /\ objs[last.other] = MovedFrom
    /\ (Did("operator=") /\ last.obj # last.other) =>
          /\ objs[last.obj] = last.source
          /\ objs[last.other] = MovedFrom
          /\ last.before.open =>
                /\ last.result.closed = <<last.before.fd>>
                /\ released[last.before.fd] = 1
          /\ ~last.before.open => last.result.closed = <<>>
    /\ (Did("operator=") /\ last.obj = last.other) =>
          /\ objs[last.obj] = last.before
          /\ last.result.closed = <<>>
    /\ (Did("~Connection") /\ last.before = MovedFrom) =>
          /\ last.result.closed = <<>>
          /\ ~last.result.logged

\* An open connection assigned to another open one: the target's descriptor
\* has been closed and it now has the source's.
C28_Witness ==
    /\ Did("operator=")
    /\ last.obj # last.other
    /\ last.before.open
    /\ last.source.open
    /\ released[last.before.fd] = 1
    /\ objs[last.obj] = last.source
    /\ Owners(last.source.fd) = {last.obj}

(***************************************************************************)
(* C26: process_json_request leaves function_registry as it found it, for  *)
(* every request: the names registered and their handlers are the same     *)
(* after it as before.                                                     *)
(***************************************************************************)
Dispatches(c) == nreq'[c] = nreq[c] + 1

C26_DispatchLeavesRegistry ==
    [][(\E c \in Conns : Dispatches(c)) => function_registry' = function_registry]_vars

(***************************************************************************)
(* C23: on each connection the k-th response sent is the response to the   *)
(* k-th request its client sent, the worker reads a request only when      *)
(* every request read before has had its response sent, and no connection  *)
(* gets a response to a request of another.                                *)
(***************************************************************************)
ResponseTo(request) == process_json_request(request, function_registry, {})

C23_OrderedPairs ==
    \A c \in Conns :
        /\ Len(log[c]) = nresp[c]
        /\ nresp[c] <= nreq[c]
        /\ nreq[c] <= nresp[c] + 1
        /\ (wpc[c] = "recv" /\ ~crashed) => nreq[c] = nresp[c]
        /\ wpc[c] = "send" =>
              /\ req[c] = input.requests[c][nreq[c]]
              /\ resp[c] \in ResponseTo(req[c])
        /\ \A k \in 1..Len(log[c]) :
              /\ log[c][k].request = input.requests[c][k]
              /\ log[c][k].outcome \in ResponseTo(input.requests[c][k])

\* Two clients with different requests, each answered on its own connection
\* with its own response.
C23_Witness ==
    /\ Len(log[1]) = 1
    /\ Len(log[2]) = 1
    /\ input.requests[1][1] # input.requests[2][1]
    /\ log[1][1].outcome # log[2][1].outcome

(***************************************************************************)
(* C21: start() called when the server runs returns at once: the caller    *)
(* is back where it was, no endpoint is bound, no thread enters the        *)
(* accept loop and nothing of the server, the registry or the workers      *)
(* changes.                                                                *)
(***************************************************************************)
\* Thread t calls start() in this step.
StartCalls(t) ==
    /\ srvPc[t] = "idle"
    /\ srvLast'.op = "start"
    /\ srvLast'.thread = t
    /\ (srvLast' # srvLast \/ srvPc'[t] # "idle")

C21_StartWhileListening ==
    [][\A t \in Threads :
          (running /\ StartCalls(t)) =>
              /\ srvPc' = srvPc
              /\ UNCHANGED <<running, listen_fd, listening, endpoints>>
              /\ UNCHANGED <<registration, workers, crashed>>]_vars

\* The other thread has called start() while the main thread was in the
\* accept loop of a running server, and has returned.
C21_Witness ==
    /\ srvLast = [op |-> "start", thread |-> "other", running |-> TRUE]
    /\ running
    /\ listening
    /\ endpoints = 1
    /\ srvPc[Main] = "accept"
    /\ srvPc["other"] = "idle"

(***************************************************************************)
(* C24: the server never has more than one listening socket open,          *)
(* whatever the order in which start() and stop() are called and           *)
(* whichever threads call them.                                            *)
(***************************************************************************)
C24_OneEndpoint == endpoints \in {0, 1}

\* The server has run and has been stopped, and now both threads are in
\* start() at once: one has its socket listening, the other is about to
\* bind.
C24_Witness ==
    /\ everListening
    /\ ~running
    /\ srvPc[Main] = "setrunning"
    /\ srvPc["other"] = "setup"
    /\ endpoints = 1

(***************************************************************************)
(* C25: stop() leaves the workers alone: the step that stops the server    *)
(* changes no worker and no connection, so a worker spawned before goes    *)
(* on reading requests and sending responses once stop() has returned.     *)
(***************************************************************************)
C25_StopLeavesWorkers == [][StopCloses => UNCHANGED workers]_vars

\* stop() was called before any request had been read; the server is
\* stopped and start() has returned, and since then a worker has read a
\* request and sent its response on a connection that is still open.
C25_Witness ==
    /\ srvLast.op = "stop"
    /\ srvLast.received = 0
    /\ ~running
    /\ ~listening
    /\ srvPc[Main] = "idle"
    /\ nresp[1] = 1
    /\ open[1]
    /\ wpc[1] = "recv"

(***************************************************************************)
(* C27: an accept that fails while the server runs does not end the        *)
(* accept loop: no worker is spawned for it, nothing of the server         *)
(* changes, and the thread goes back to the test of the loop; a thread     *)
(* leaves the loop only in a step in which running is false.               *)
(***************************************************************************)
\* The accept of thread t fails in this step.
AcceptFails(t) ==
    /\ srvPc[t] = "accept"
    /\ srvPc'[t] \in {"loop", "close"}
    /\ wpc' = wpc

\* Thread t leaves the accept loop in this step.
LeavesLoop(t) == srvPc[t] # "close" /\ srvPc'[t] = "close"

C27_FailedAcceptGoesOn ==
    [][\A t \in Threads :
          /\ (running /\ AcceptFails(t)) =>
                /\ srvPc'[t] = "loop"
                /\ UNCHANGED <<running, listen_fd, listening, endpoints>>
                /\ UNCHANGED <<workers, crashed>>
          /\ LeavesLoop(t) => ~running]_vars

\* An accept failed while the server ran and no connection had been
\* accepted; the server still runs and listens, and since then a connection
\* has been accepted and its first request answered.
C27_Witness ==
    /\ srvLast.op = "accept failed"
    /\ srvLast.running
    /\ srvLast.accepted = 0
    /\ running
    /\ listening
    /\ nresp[1] = 1

(***************************************************************************)
(* C22: a ConnectionError in the worker of one connection ends that        *)
(* worker and nothing else: the process goes on, the server and its        *)
(* accept loop are as they were, no response is sent on the failed         *)
(* connection then or later, the workers of the other connections are      *)
(* untouched, and what they send afterwards is the response to the         *)
(* request they read.                                                      *)
(***************************************************************************)
\* The worker of connection c ends with a ConnectionError in this step.
Disconnects(c) == wpc[c] \in {"recv", "send"} /\ wpc'[c] = "disconnected"

\* The worker of connection c sends a response in this step.
Responds(c) == nresp'[c] = nresp[c] + 1

C22_ConnectionErrorContained ==
    [][\A c \in Conns :
          /\ Disconnects(c) =>
                /\ ~crashed'
                /\ UNCHANGED server
                /\ nresp' = nresp
                /\ log' = log
                /\ \A d \in Conns \ {c} :
                      /\ wpc'[d] = wpc[d]
                      /\ open'[d] = open[d]
                      /\ req'[d] = req[d]
                      /\ resp'[d] = resp[d]
                      /\ nreq'[d] = nreq[d]
          /\ wpc[c] = "disconnected" =>
                /\ wpc'[c] = "disconnected"
                /\ ~Responds(c)
          /\ ((\E d \in Conns \ {c} : wpc[d] = "disconnected") /\ Responds(c)) =>
                /\ resp[c] \in ResponseTo(req[c])
                /\ log'[c] = Append(log[c], [request |-> req[c], outcome |-> resp[c]])]_vars

\* The worker of connection 1 has ended with a ConnectionError; the server
\* runs with its thread in accept, and the client of connection 2 has its
\* response.
C22_Witness ==
    /\ wpc[1] = "disconnected"
    /\ nresp[2] = 1
    /\ Len(log[2]) = 1
    /\ running
    /\ listening
    /\ srvPc[Main] = "accept"
    /\ ~crashed

====
